---- MODULE Spec2Model ----
(***************************************************************************)
(* A model of the filesystem helpers of mapproxy/util/__init__.py:         *)
(* swap_dir / _force_rename_dir (atomic directory replacement with a       *)
(* bounded retry loop), cleanup_directory / remove_dir_if_emtpy           *)
(* (timestamp based cache cleanup) and write_atomic (write to a temporary  *)
(* file, then rename).                                                     *)
(*                                                                         *)
(* A directory is a record [ex, files]: whether the path exists and the    *)
(* set of entries below it.  An entry <<g, i>> is file i of the tree of    *)
(* generation g; generation 0 holds the entries written by an external     *)
(* actor that races on the destination name.                               *)
(***************************************************************************)
EXTENDS Integers, Sequences, FiniteSets, TLC

\* ---------------------------------------------------------------- bounds
\* Largest number of entries of one tree (and of the external actor's files).
MaxFiles == 2
\* Number of consecutive swap_dir calls on the same destination.
MaxCalls == 2

\* Number of subdirectories below the directory that is cleaned.
MaxDirs == 2
\* Number of files in the tree that is cleaned.
MaxCFiles == 2
\* Modification times and cutoffs range over 0..MaxTime.
MaxTime == 2

\* Number of write_atomic calls on the same filename.
MaxWriters == 3
\* The temp names the calls draw from (for random.randint(0, 999999)).
MaxNames == 2

\* ------------------------------------------------------ program constants
\* while rename_tries < 10
MaxTries == 10

VARIABLES
    fs,            \* [Paths -> directory]: the three paths swap_dir works on
    pc,            \* position of the running swap_dir call
    keep_old,      \* the keep_old argument of the running call
    rename_tries,  \* the local counter of _force_rename_dir
    attempts,      \* number of os.rename(src_dir, dst_dir) calls made so far
    sleeps,        \* the delays slept so far, in centiseconds
    lastErr,       \* errno of the latest os.rename(src_dir, dst_dir), or "OK"
    err,           \* errno of the OSError that left swap_dir ("none": no error)
    errAt,         \* the statement that raised it
    pending,       \* names listed by the running shutil.rmtree, not yet removed
    call,          \* number of the running swap_dir call
    newTree,       \* entries of src_dir when the call began
    oldEx,         \* whether dst_dir existed when the call began
    oldTree,       \* entries of dst_dir when the call began
    ext            \* what the external actor has done during this call

swapVars == <<fs, pc, keep_old, rename_tries, attempts, sleeps, lastErr, err,
              errAt, pending, call, newTree, oldEx, oldTree, ext>>

VARIABLES
    cparent,       \* [1..MaxDirs -> directory]: the parent of each subdirectory
    cdirs,         \* the directories that exist (0 is the `directory` argument)
    cfiles,        \* the files that exist: records [id, dir, mtime]
    before_timestamp,   \* the cutoff argument
    remove_empty_dirs,  \* the remove_empty_dirs argument
    file_handler,  \* "default" (None: os.remove), or a caller's handler
    cpc,           \* position of the running cleanup_directory call
    stack,         \* the frames of os.walk: [dir, subdirs, files]
    todo,          \* filenames of the yielded directory not yet handled
    invoked,       \* [file id -> number of file_handler calls on it]
    cerr,          \* errno of the OSError that left cleanup_directory
    initDirs,      \* the directories when the call began
    initFiles      \* the files when the call began

cleanVars == <<cparent, cdirs, cfiles, before_timestamp, remove_empty_dirs,
               file_handler, cpc, stack, todo, invoked, cerr, initDirs,
               initFiles>>

VARIABLES
    wpc,           \* [call -> position of that write_atomic call]
    wname,         \* [call -> the random number of its path_tmp, 0: none yet]
    wexc,          \* [call -> class of the exception it raised, or "none"]
    tmpfile,       \* [temp name -> call whose file is at that name, 0: none]
    content,       \* [call -> state of the file it created]; 0: old content
    wpathEx,       \* whether `filename` exists
    wpathIno,      \* the file at `filename`: the creating call, 0: old content
    wfresh         \* whether `filename` was absent before the first call

writeVars == <<wpc, wname, wexc, tmpfile, content, wpathEx, wpathIno, wfresh>>

vars == <<swapVars, cleanVars, writeVars>>

\* ------------------------------------------------------------ filesystem
Paths == {"src", "dst", "tmp"}

Absent == [ex |-> FALSE, files |-> {}]

Dir(files) == [ex |-> TRUE, files |-> files]

Tree(g, n) == {<<g, i>> : i \in 1..n}

ExtFiles == Tree(0, MaxFiles)

OccupancyErrnos == {"ENOTEMPTY", "EEXIST"}

\* A handler that takes every OSError of the rename for an occupied target.
OccupancyAnyError(e) == TRUE

\* errno.ENOTEMPTY or errno.EEXIST: the failures the retry loop recovers from
Occupancy(e) == e \in OccupancyErrnos

\* os.rename(a, b) on directories: the errno it fails with, "OK" if it succeeds.
\* occ is the errno this platform reports for an occupied target.
RenameErrno(f, a, b, occ) ==
    IF ~f[a].ex THEN "ENOENT"
    ELSE IF f[b].ex /\ f[b].files # {} THEN occ
    ELSE "OK"

\* A copy in place of the rename: b is a's tree, and a is still there.
RenameResultKeepsSource(f, a, b) == [f EXCEPT ![b] = f[a]]

\* os.rename(a, b) that succeeds: b is a's tree, a is gone (one atomic step)
RenameResult(f, a, b) == [f EXCEPT ![b] = f[a], ![a] = Absent]

RECURSIVE Pow2(_)
Pow2(n) == IF n = 0 THEN 1 ELSE 2 * Pow2(n - 1)

\* time.sleep(2**rename_tries / 100.0), in centiseconds
SleepCs(tries) == Pow2(tries)

Running == pc \notin {"done", "failed"}

Raise(e, at) ==
    /\ pc' = "failed"
    /\ err' = e
    /\ errAt' = at

\* ------------------------------------------------------------- swap_dir
\* shutil.rmtree(p), first step: os.listdir(p); a missing directory raises
RmtreeList(p, here, next, at) ==
    /\ pc = here
    /\ IF fs[p].ex
       THEN /\ pending' = fs[p].files
            /\ pc' = next
            /\ UNCHANGED <<err, errAt>>
       ELSE /\ Raise("ENOENT", at)
            /\ UNCHANGED pending
    /\ UNCHANGED <<fs, keep_old, rename_tries, attempts, sleeps, lastErr,
                   call, newTree, oldEx, oldTree, ext>>
    /\ UNCHANGED <<cleanVars, writeVars>>

\* shutil.rmtree(p), os.remove of one listed name; a vanished name raises
RmtreeFile(p, here, at) ==
    /\ pc = here
    /\ \E f \in pending :
          IF f \in fs[p].files
          THEN /\ fs' = [fs EXCEPT ![p].files = @ \ {f}]
               /\ pending' = pending \ {f}
               /\ UNCHANGED <<pc, err, errAt>>
          ELSE /\ Raise("ENOENT", at)
               /\ UNCHANGED <<fs, pending>>
    /\ UNCHANGED <<keep_old, rename_tries, attempts, sleeps, lastErr,
                   call, newTree, oldEx, oldTree, ext>>
    /\ UNCHANGED <<cleanVars, writeVars>>

\* shutil.rmtree(p), last step: os.rmdir(p); missing or refilled raises
RmtreeRmdir(p, here, next, at) ==
    /\ pc = here
    /\ pending = {}
    /\ IF ~fs[p].ex
       THEN /\ Raise("ENOENT", at)
            /\ UNCHANGED fs
       ELSE IF fs[p].files # {}
       THEN /\ Raise("ENOTEMPTY", at)
            /\ UNCHANGED fs
       ELSE /\ fs' = [fs EXCEPT ![p] = Absent]
            /\ pc' = next
            /\ UNCHANGED <<err, errAt>>
    /\ UNCHANGED <<keep_old, rename_tries, attempts, sleeps, lastErr, pending,
                   call, newTree, oldEx, oldTree, ext>>
    /\ UNCHANGED <<cleanVars, writeVars>>

\* line 100: if os.path.exists(dst_dir)
SwapCheckDst ==
    /\ pc = "start"
    /\ pc' = IF fs["dst"].ex THEN "bak_rename" ELSE "rename"
    /\ UNCHANGED <<fs, keep_old, rename_tries, attempts, sleeps, lastErr, err,
                   errAt, pending, call, newTree, oldEx, oldTree, ext>>
    /\ UNCHANGED <<cleanVars, writeVars>>

\* line 101: os.rename(dst_dir, tmp_dir), outside any try
SwapBackupRename ==
    /\ pc = "bak_rename"
    /\ \E fault \in {"none", "EACCES"}, occ \in OccupancyErrnos :
          LET e == IF fault # "none" THEN fault
                   ELSE RenameErrno(fs, "dst", "tmp", occ)
          IN  IF e = "OK"
              THEN /\ fs' = RenameResult(fs, "dst", "tmp")
                   /\ pc' = "rename"
                   /\ UNCHANGED <<err, errAt>>
              ELSE /\ Raise(e, "bak_rename")
                   /\ UNCHANGED fs
    /\ UNCHANGED <<keep_old, rename_tries, attempts, sleeps, lastErr, pending,
                   call, newTree, oldEx, oldTree, ext>>
    /\ UNCHANGED <<cleanVars, writeVars>>

\* lines 115-122 and 124-127: one pass of the while loop up to the rmtree call
ForceRenameAttempt ==
    /\ pc = "rename"
    /\ rename_tries < MaxTries
    /\ attempts' = attempts + 1
    /\ \E fault \in {"none", "EACCES"}, occ \in OccupancyErrnos :
          LET e == IF fault # "none" THEN fault
                   ELSE RenameErrno(fs, "src", "dst", occ)
          IN  /\ lastErr' = e
              /\ IF e = "OK"
                 THEN /\ fs' = RenameResult(fs, "src", "dst")
                      /\ pc' = "check_bak"
                      /\ UNCHANGED <<rename_tries, sleeps, err, errAt>>
                 ELSE IF Occupancy(e)
                 THEN /\ sleeps' = IF rename_tries > 0
                                   THEN Append(sleeps, SleepCs(rename_tries))
                                   ELSE sleeps
                      /\ rename_tries' = rename_tries + 1
                      /\ pc' = "clear_list"
                      /\ UNCHANGED <<fs, err, errAt>>
                 ELSE /\ Raise(e, "rename")
                      /\ UNCHANGED <<fs, rename_tries, sleeps>>
    /\ UNCHANGED <<keep_old, pending, call, newTree, oldEx, oldTree, ext>>
    /\ UNCHANGED <<cleanVars, writeVars>>

\* line 115: the while condition is false; the function falls off its end
ForceRenameExhausted ==
    /\ pc = "rename"
    /\ ~(rename_tries < MaxTries)
    /\ pc' = "check_bak"
    /\ UNCHANGED <<fs, keep_old, rename_tries, attempts, sleeps, lastErr, err,
                   errAt, pending, call, newTree, oldEx, oldTree, ext>>
    /\ UNCHANGED <<cleanVars, writeVars>>

\* line 123: shutil.rmtree(dst_dir), inside the except clause
ClearList == RmtreeList("dst", "clear_list", "clear_files", "clear")

ClearFile == RmtreeFile("dst", "clear_files", "clear")

ClearRmdir == RmtreeRmdir("dst", "clear_files", "rename", "clear")

\* line 105: if os.path.exists(tmp_dir) and not keep_old
SwapCheckBackup ==
    /\ pc = "check_bak"
    /\ pc' = IF fs["tmp"].ex /\ ~keep_old THEN "bak_list" ELSE "done"
    /\ UNCHANGED <<fs, keep_old, rename_tries, attempts, sleeps, lastErr, err,
                   errAt, pending, call, newTree, oldEx, oldTree, ext>>
    /\ UNCHANGED <<cleanVars, writeVars>>

\* line 106: shutil.rmtree(tmp_dir)
BackupList == RmtreeList("tmp", "bak_list", "bak_files", "bak_delete")

BackupFile == RmtreeFile("tmp", "bak_files", "bak_delete")

BackupRmdir == RmtreeRmdir("tmp", "bak_files", "done", "bak_delete")

\* The caller builds the next tree and calls swap_dir again after a swap that
\* published its tree.
NewCall ==
    /\ pc = "done"
    /\ call < MaxCalls
    /\ fs["dst"] = Dir(newTree)
    /\ ~fs["src"].ex
    /\ \E n \in 1..MaxFiles, k \in BOOLEAN :
          /\ fs' = [fs EXCEPT !["src"] = Dir(Tree(call + 2, n))]
          /\ newTree' = Tree(call + 2, n)
          /\ keep_old' = k
    /\ oldEx' = TRUE
    /\ oldTree' = fs["dst"].files
    /\ call' = call + 1
    /\ pc' = "start"
    /\ rename_tries' = 0
    /\ attempts' = 0
    /\ sleeps' = << >>
    /\ lastErr' = "none"
    /\ pending' = {}
    /\ ext' = {}
    /\ UNCHANGED <<err, errAt>>
    /\ UNCHANGED <<cleanVars, writeVars>>

\* ------------------------------------------------- the external actor
\* Another process recreates the destination name while it is free.
ExtMkdir ==
    /\ Running
    /\ ~fs["dst"].ex
    /\ fs' = [fs EXCEPT !["dst"] = Dir({})]
    /\ ext' = ext \cup {"occupy"}
    /\ UNCHANGED <<pc, keep_old, rename_tries, attempts, sleeps, lastErr, err,
                   errAt, pending, call, newTree, oldEx, oldTree>>
    /\ UNCHANGED <<cleanVars, writeVars>>

\* ... and writes a file into the directory it recreated.
ExtWrite ==
    /\ Running
    /\ fs["dst"].ex
    /\ fs["dst"].files \subseteq ExtFiles
    /\ \E f \in ExtFiles \ fs["dst"].files :
          fs' = [fs EXCEPT !["dst"].files = @ \cup {f}]
    /\ ext' = ext \cup {"occupy"}
    /\ UNCHANGED <<pc, keep_old, rename_tries, attempts, sleeps, lastErr, err,
                   errAt, pending, call, newTree, oldEx, oldTree>>
    /\ UNCHANGED <<cleanVars, writeVars>>

\* ... or removes the directory it recreated.
ExtRemoveDst ==
    /\ Running
    /\ fs["dst"].ex
    /\ fs["dst"].files \subseteq ExtFiles
    /\ "occupy" \in ext
    /\ fs' = [fs EXCEPT !["dst"] = Absent]
    /\ ext' = ext \cup {"remove"}
    /\ UNCHANGED <<pc, keep_old, rename_tries, attempts, sleeps, lastErr, err,
                   errAt, pending, call, newTree, oldEx, oldTree>>
    /\ UNCHANGED <<cleanVars, writeVars>>

\* Another process removes the backup directory.
ExtRemoveBackup ==
    /\ Running
    /\ fs["tmp"].ex
    /\ fs' = [fs EXCEPT !["tmp"] = Absent]
    /\ ext' = ext \cup {"remove"}
    /\ UNCHANGED <<pc, keep_old, rename_tries, attempts, sleeps, lastErr, err,
                   errAt, pending, call, newTree, oldEx, oldTree>>
    /\ UNCHANGED <<cleanVars, writeVars>>

SwapInit ==
    /\ \E n \in 1..MaxFiles, m \in 0..MaxFiles :
          /\ fs = [p \in Paths |->
                     IF p = "src" THEN Dir(Tree(2, n))
                     ELSE IF p = "dst" /\ m > 0 THEN Dir(Tree(1, m))
                     ELSE Absent]
          /\ newTree = Tree(2, n)
          /\ oldEx = (m > 0)
          /\ oldTree = Tree(1, m)
    /\ keep_old \in BOOLEAN
    /\ pc = "start"
    /\ rename_tries = 0
    /\ attempts = 0
    /\ sleeps = << >>
    /\ lastErr = "none"
    /\ err = "none"
    /\ errAt = "none"
    /\ pending = {}
    /\ call = 1
    /\ ext = {}

Writers == 1..MaxWriters

Names == 1..MaxNames

\* No write_atomic call is made.
WriteIdle ==
    /\ wpc = [c \in Writers |-> "idle"]
    /\ wname = [c \in Writers |-> 0]
    /\ wexc = [c \in Writers |-> "none"]
    /\ tmpfile = [n \in Names |-> 0]
    /\ content = [c \in 0..MaxWriters |-> IF c = 0 THEN "full" ELSE "none"]
    /\ wpathEx = FALSE
    /\ wpathIno = 0
    /\ wfresh = TRUE

\* No swap_dir call is made.
SwapIdle ==
    /\ fs = [p \in Paths |-> Absent]
    /\ pc = "idle"
    /\ keep_old = FALSE
    /\ rename_tries = 0
    /\ attempts = 0
    /\ sleeps = << >>
    /\ lastErr = "none"
    /\ err = "none"
    /\ errAt = "none"
    /\ pending = {}
    /\ call = 0
    /\ newTree = {}
    /\ oldEx = FALSE
    /\ oldTree = {}
    /\ ext = {}

\* No cleanup_directory call is made.
CleanIdle ==
    /\ cparent = [d \in 1..MaxDirs |-> 0]
    /\ cdirs = {}
    /\ cfiles = {}
    /\ before_timestamp = 0
    /\ remove_empty_dirs = FALSE
    /\ file_handler = "default"
    /\ cpc = "idle"
    /\ stack = << >>
    /\ todo = {}
    /\ invoked = << >>
    /\ cerr = "none"
    /\ initDirs = {}
    /\ initFiles = {}

Init == SwapInit /\ CleanIdle /\ WriteIdle

Next ==
    \/ SwapCheckDst
    \/ SwapBackupRename
    \/ ForceRenameAttempt
    \/ ForceRenameExhausted
    \/ ClearList
    \/ ClearFile
    \/ ClearRmdir
    \/ SwapCheckBackup
    \/ BackupList
    \/ BackupFile
    \/ BackupRmdir
    \/ NewCall
    \/ ExtMkdir
    \/ ExtWrite
    \/ ExtRemoveDst
    \/ ExtRemoveBackup

Spec == Init /\ [][Next]_vars

\* ------------------------------------------------------ claims on swap_dir
Ended == pc \in {"done", "failed"}

\* The call saw no injected I/O fault of another kind than occupancy.
NoFault == err # "EACCES"

\* C1: when all 10 rename attempts fail with an occupancy error, swap_dir
\* does not return normally but raises.
C1_ExhaustedRetriesRaise ==
    (Ended /\ rename_tries = MaxTries /\ attempts = MaxTries) => pc = "failed"

\* C2: when the external actor only re-occupies the destination and between
\* 1 and 9 rename attempts fail with an occupancy error (and nothing else
\* fails), swap_dir makes at most 10 attempts and returns normally with the
\* destination holding the former source tree and the source path gone.
C2_RetriesSucceed ==
    (/\ Ended
     /\ rename_tries \in 1..(MaxTries - 1)
     /\ NoFault
     /\ "remove" \notin ext)
    => (/\ pc = "done"
        /\ attempts <= MaxTries
        /\ fs["dst"] = Dir(newTree)
        /\ ~fs["src"].ex)

\* C3 as stated: at every instant the destination is absent, or exactly the
\* complete old tree, or exactly the complete new tree.
C3_DstAbsentOldOrNew ==
    \/ ~fs["dst"].ex
    \/ oldEx /\ fs["dst"] = Dir(oldTree)
    \/ fs["dst"] = Dir(newTree)

\* C3 as amended: at every instant the destination is absent, or exactly the
\* complete old tree, or exactly the complete new tree, or a directory that
\* holds nothing but what the external actor put there; it never holds a part
\* of the old or of the new tree, nor a mix.
C3_DstNeverPartialOrMixed ==
    \/ ~fs["dst"].ex
    \/ oldEx /\ fs["dst"] = Dir(oldTree)
    \/ fs["dst"] = Dir(newTree)
    \/ fs["dst"].ex /\ fs["dst"].files \subseteq ExtFiles

\* C3 witness: the destination holds the external actor's directory, half
\* cleared by the retry loop.
C3_Witness ==
    /\ pc = "clear_files"
    /\ fs["dst"].ex
    /\ fs["dst"].files # {}
    /\ pending # {}
    /\ fs["dst"].files # pending
    /\ rename_tries > 1

\* C4: with a non-empty source and no destination (and nobody else acting),
\* after swap_dir returns the destination holds exactly the source's contents
\* and the source path is gone.
C4_FreshDestination ==
    (pc = "done" /\ ext = {} /\ ~oldEx)
    => (fs["dst"] = Dir(newTree) /\ ~fs["src"].ex)

C4_Witness ==
    /\ pc = "done"
    /\ ext = {}
    /\ ~oldEx
    /\ Cardinality(newTree) = MaxFiles
    /\ fs["dst"] = Dir(newTree)
    /\ attempts = 1

\* C5: with a pre-existing destination and keep_old false, whatever sits at
\* the backup path from an earlier swap, swap_dir ends with the destination
\* holding the new contents and no backup path left.
C5_NoBackupRemains ==
    (Ended /\ ext = {} /\ NoFault /\ oldEx /\ ~keep_old)
    => (/\ pc = "done"
        /\ fs["dst"] = Dir(newTree)
        /\ ~fs["tmp"].ex)

\* C6: with a pre-existing destination and keep_old true, also on a second
\* swap that finds the first swap's backup, swap_dir returns with the backup
\* path holding the old destination tree and the destination the new tree.
C6_BackupKept ==
    (Ended /\ ext = {} /\ NoFault /\ oldEx /\ keep_old)
    => (/\ pc = "done"
        /\ fs["tmp"] = Dir(oldTree)
        /\ fs["dst"] = Dir(newTree))

\* C7: no error raised while deleting the backup makes swap_dir fail.
C7_BackupDeleteBestEffort == pc = "failed" => errAt # "bak_delete"

\* C8: no error raised while clearing the destination after an occupancy
\* failure makes the routine raise; it goes on to retry the rename.
C8_ClearBestEffort == pc = "failed" => errAt # "clear"

\* C9: a rename of source onto destination that fails with anything but an
\* occupancy error ends swap_dir at once with that error: no retry, no sleep,
\* nothing removed at the destination, the backup of the old tree in place.
C9_FatalRenameError ==
    [][/\ (/\ pc = "rename"
           /\ attempts' = attempts + 1
           /\ lastErr' \notin ({"OK"} \cup OccupancyErrnos))
          => (/\ pc' = "failed"
              /\ err' = lastErr'
              /\ errAt' = "rename"
              /\ fs' = fs
              /\ rename_tries' = rename_tries
              /\ sleeps' = sleeps
              /\ (oldEx /\ "remove" \notin ext) => fs'["tmp"] = Dir(oldTree))
       /\ pc = "failed" => UNCHANGED vars]_vars

\* C9 witness: a fatal error on a retry, the old tree still at the backup
\* path and the external actor's directory still at the destination.
C9_Witness ==
    /\ pc = "failed"
    /\ errAt = "rename"
    /\ err = "EACCES"
    /\ rename_tries > 0
    /\ fs["tmp"] = Dir(oldTree)
    /\ fs["dst"].ex
    /\ fs["dst"].files # {}
    /\ fs["src"] = Dir(newTree)

\* ----------------------------------------------------- cleanup_directory
Times == 0..MaxTime

\* st_mtime of a file: a time in 0..MaxTime, or one before the epoch
MTimes == (-1)..MaxTime

\* the subdirectories of d among dirs
Children(d, dirs) == {c \in dirs \ {0} : cparent[c] = d}

\* the files directly in d among files
FilesIn(d, files) == {f \in files : f.dir = d}

\* not os.listdir(d): d has no entry
IsEmptyDir(d, dirs, files) == Children(d, dirs) = {} /\ FilesIn(d, files) = {}

Ids(files) == {f.id : f \in files}

FileOf(i, files) == CHOOSE f \in files : f.id = i

Min(S) == CHOOSE x \in S : \A y \in S : x <= y

RECURSIVE Ascending(_)
Ascending(S) == IF S = {} THEN << >> ELSE <<Min(S)>> \o Ascending(S \ {Min(S)})

\* os.walk entering d: one os.listdir, split into dirnames and filenames
Frame(d) ==
    [dir |-> d,
     subdirs |-> Ascending(Children(d, cdirs)),
     files |-> Ids(FilesIn(d, cfiles))]

Top == stack[Len(stack)]

Pop == SubSeq(stack, 1, Len(stack) - 1)

\* A cutoff that also takes the files modified exactly at the cutoff.
ExpiredInclusive(mtime, cutoff) == mtime <= cutoff

\* line 180: os.lstat(filename).st_mtime < before_timestamp
Expired(mtime, cutoff) == mtime < cutoff

\* whether file_handler removes the file it is given
Deletes(h) == h \in {"default", "custom_delete"}

\* A handler call that leaves every file in place.
AfterHandlerKeeps(files, i, h) == files

\* file_handler(filename) on the file with id i
AfterHandler(files, i, h) ==
    IF Deletes(h) THEN {f \in files : f.id # i} ELSE files

\* A remove_dir_if_emtpy that never removes anything.
RemoveDirNever(d, dirs, files) == dirs

\* remove_dir_if_emtpy(d): os.rmdir, ENOENT and ENOTEMPTY swallowed
RemoveDirIfEmpty(d, dirs, files) ==
    IF d \in dirs /\ IsEmptyDir(d, dirs, files) THEN dirs \ {d} ELSE dirs

RECURSIVE Below(_, _)
\* whether directory c is d or lies below d
Below(c, d) == c = d \/ (c # 0 /\ Below(cparent[c], d))

\* line 163: shutil.rmtree(directory, ignore_errors=True): what is left of
\* the directories and files
FastPath(dirs, files) ==
    [dirs |-> {d \in dirs : ~Below(d, 0)},
     files |-> {f \in files : ~Below(f.dir, 0)}]

\* the position after the frame of the yielded directory is left
AfterPop == IF Len(stack) = 1 THEN "root_rmdir" ELSE "walk"

\* lines 161-168: the fast path, or the start of the walk
CleanBegin ==
    /\ cpc = "begin"
    /\ IF /\ file_handler = "default"
          /\ before_timestamp = 0
          /\ remove_empty_dirs
          /\ 0 \in cdirs
       THEN /\ cdirs' = FastPath(cdirs, cfiles).dirs
            /\ cfiles' = FastPath(cdirs, cfiles).files
            /\ cpc' = "done"
            /\ UNCHANGED stack
       ELSE IF 0 \in cdirs
       THEN /\ stack' = <<Frame(0)>>
            /\ cpc' = "walk"
            /\ UNCHANGED <<cdirs, cfiles>>
       ELSE /\ cpc' = "done"
            /\ UNCHANGED <<cdirs, cfiles, stack>>
    /\ UNCHANGED <<cparent, before_timestamp, remove_empty_dirs, file_handler,
                   todo, invoked, cerr, initDirs, initFiles>>
    /\ UNCHANGED <<swapVars, writeVars>>

\* os.walk(topdown=False) descending into the next subdirectory of the frame
WalkDescend ==
    /\ cpc = "walk"
    /\ Top.subdirs # << >>
    /\ LET c == Head(Top.subdirs)
           rest == [stack EXCEPT ![Len(stack)].subdirs = Tail(@)]
       IN  stack' = IF c \in cdirs THEN Append(rest, Frame(c)) ELSE rest
    /\ UNCHANGED <<cparent, cdirs, cfiles, before_timestamp, remove_empty_dirs,
                   file_handler, cpc, todo, invoked, cerr, initDirs, initFiles>>
    /\ UNCHANGED <<swapVars, writeVars>>

\* lines 169-175: os.walk yields a directory whose subdirectories are done
CleanYield ==
    /\ cpc = "walk"
    /\ Top.subdirs = << >>
    /\ LET d == Top.dir
       IN  IF Top.files = {}
           THEN IF remove_empty_dirs /\ d \notin cdirs
                THEN /\ cpc' = "failed"
                     /\ cerr' = "ENOENT"
                     /\ UNCHANGED <<cdirs, stack, todo>>
                ELSE /\ cdirs' = IF /\ remove_empty_dirs
                                    /\ IsEmptyDir(d, cdirs, cfiles)
                                    /\ d # 0
                                 THEN cdirs \ {d}
                                 ELSE cdirs
                     /\ stack' = Pop
                     /\ cpc' = AfterPop
                     /\ UNCHANGED <<todo, cerr>>
           ELSE /\ todo' = Top.files
                /\ cpc' = "files"
                /\ UNCHANGED <<cdirs, stack, cerr>>
    /\ UNCHANGED <<cparent, cfiles, before_timestamp, remove_empty_dirs,
                   file_handler, invoked, initDirs, initFiles>>
    /\ UNCHANGED <<swapVars, writeVars>>

\* lines 175-183: one pass of the loop over the filenames
CleanFile ==
    /\ cpc = "files"
    /\ todo # {}
    /\ LET i == Min(todo)
           first == before_timestamp = 0
           gone == i \notin Ids(cfiles)
           files1 == IF first THEN AfterHandler(cfiles, i, file_handler)
                     ELSE cfiles
           raised == first /\ Deletes(file_handler) /\ gone
           second == /\ ~raised
                     /\ i \in Ids(files1)
                     /\ Expired(FileOf(i, files1).mtime, before_timestamp)
           files2 == IF second THEN AfterHandler(files1, i, file_handler)
                     ELSE files1
           n == (IF first THEN 1 ELSE 0) + (IF second THEN 1 ELSE 0)
       IN  /\ cfiles' = files2
           /\ invoked' = [invoked EXCEPT ![i] = @ + n]
           /\ todo' = todo \ {i}
    /\ UNCHANGED <<cparent, cdirs, before_timestamp, remove_empty_dirs,
                   file_handler, cpc, stack, cerr, initDirs, initFiles>>
    /\ UNCHANGED <<swapVars, writeVars>>

\* lines 185-186: after the files of a directory
CleanDirDone ==
    /\ cpc = "files"
    /\ todo = {}
    /\ cdirs' = IF remove_empty_dirs
                THEN RemoveDirIfEmpty(Top.dir, cdirs, cfiles)
                ELSE cdirs
    /\ stack' = Pop
    /\ cpc' = AfterPop
    /\ UNCHANGED <<cparent, cfiles, before_timestamp, remove_empty_dirs,
                   file_handler, todo, invoked, cerr, initDirs, initFiles>>
    /\ UNCHANGED <<swapVars, writeVars>>

\* lines 188-189: after the walk
CleanRoot ==
    /\ cpc = "root_rmdir"
    /\ cdirs' = IF remove_empty_dirs
                THEN RemoveDirIfEmpty(0, cdirs, cfiles)
                ELSE cdirs
    /\ cpc' = "done"
    /\ UNCHANGED <<cparent, cfiles, before_timestamp, remove_empty_dirs,
                   file_handler, stack, todo, invoked, cerr, initDirs,
                   initFiles>>
    /\ UNCHANGED <<swapVars, writeVars>>

\* the rank of a file's place and age, to list each tree once
FileKey(k) == k[1] * (MaxTime + 2) + k[2] + 1

CleanInit ==
    /\ cparent \in {p \in [1..MaxDirs -> 0..(MaxDirs - 1)] :
                      \A d \in 1..MaxDirs : p[d] < d}
    /\ cdirs = 0..MaxDirs
    /\ \E nf \in 0..MaxCFiles :
          \E k \in [1..nf -> (0..MaxDirs) \X MTimes] :
             /\ \A i \in 1..nf : \A j \in 1..nf :
                   i < j => FileKey(k[i]) <= FileKey(k[j])
             /\ cfiles = {[id |-> i, dir |-> k[i][1], mtime |-> k[i][2]] :
                            i \in 1..nf}
             /\ invoked = [i \in 1..nf |-> 0]
    /\ before_timestamp \in Times
    /\ remove_empty_dirs \in BOOLEAN
    /\ file_handler \in {"default", "custom_delete", "custom_keep"}
    /\ cpc = "begin"
    /\ stack = << >>
    /\ todo = {}
    /\ cerr = "none"
    /\ initDirs = cdirs
    /\ initFiles = cfiles

InitClean == SwapIdle /\ CleanInit /\ WriteIdle

NextClean ==
    \/ CleanBegin
    \/ WalkDescend
    \/ CleanYield
    \/ CleanFile
    \/ CleanDirDone
    \/ CleanRoot

SpecClean == InitClean /\ [][NextClean]_vars

\* ---------------------------------------------- claims on cleanup_directory
Survivors == {f \in initFiles : f.mtime >= before_timestamp}

\* the directories with a surviving file in them or below them
Holding == {d \in initDirs : \E f \in Survivors : Below(f.dir, d)}

\* C10: with a non-zero cutoff T and the default delete, cleanup_directory
\* deletes exactly the files with mtime < T; with remove_empty_dirs every
\* directory without a surviving file in or below it is removed and every
\* directory with one is kept; without it no directory is removed.
C10_CutoffCleanup ==
    (cpc = "done" /\ before_timestamp # 0 /\ file_handler = "default")
    => (/\ cfiles = Survivors
        /\ cdirs = IF remove_empty_dirs THEN Holding ELSE initDirs)

\* C10 witness: a file deleted, a file of exactly the cutoff's age kept, and
\* a directory pruned that held nothing but a pruned subdirectory.
C10_Witness ==
    /\ cpc = "done"
    /\ before_timestamp # 0
    /\ file_handler = "default"
    /\ remove_empty_dirs
    /\ \E f \in initFiles : f.mtime = before_timestamp /\ f \in cfiles
    /\ \E f \in initFiles : f.mtime < before_timestamp /\ f \notin cfiles
    /\ \E d \in initDirs \ cdirs :
          /\ FilesIn(d, initFiles) = {}
          /\ Children(d, initDirs) # {}
    /\ 0 \in cdirs

\* C11: with cutoff 0 and a handler that deletes, cleanup_directory removes
\* every file whatever its age; with remove_empty_dirs it also removes every
\* subdirectory and the directory itself, without it no directory at all.
C11_ZeroCutoffRemovesAll ==
    (cpc = "done" /\ before_timestamp = 0 /\ Deletes(file_handler))
    => (/\ cfiles = {}
        /\ cdirs = IF remove_empty_dirs THEN {} ELSE initDirs)

\* C11 witness: the walk (not the fast path) removed files of every age and
\* left the whole skeleton of directories.
C11_Witness ==
    /\ cpc = "done"
    /\ before_timestamp = 0
    /\ file_handler = "default"
    /\ ~remove_empty_dirs
    /\ \E f \in initFiles : f.mtime = MaxTime
    /\ \E f \in initFiles : f.mtime = 0 /\ f.dir # 0
    /\ cfiles = {}
    /\ cdirs = initDirs

\* C12: the general walk run with cutoff 0, remove_empty_dirs and a handler
\* that is the default delete ends in the state the fast path (one recursive
\* removal) ends in for the same tree.
C12_FastPathEquivalent ==
    (/\ cpc = "done"
     /\ before_timestamp = 0
     /\ remove_empty_dirs
     /\ Deletes(file_handler))
    => (/\ cdirs = FastPath(initDirs, initFiles).dirs
        /\ cfiles = FastPath(initDirs, initFiles).files)

\* C12 witness: the walk with a passed-in delete has ended on a tree with
\* files and a nested subdirectory.
C12_Witness ==
    /\ cpc = "done"
    /\ before_timestamp = 0
    /\ remove_empty_dirs
    /\ file_handler = "custom_delete"
    /\ Cardinality(initFiles) = MaxCFiles
    /\ \E d \in initDirs : d # 0 /\ cparent[d] # 0
    /\ \A f \in initFiles : invoked[f.id] = 1
    /\ cdirs = {}

\* ------------------------------- cleanup_directory beside another process
\* Another process removes a file of the tree while the walk runs.
ExtDeleteFile ==
    /\ cpc \in {"walk", "files", "root_rmdir"}
    /\ \E f \in cfiles : cfiles' = cfiles \ {f}
    /\ UNCHANGED <<cparent, cdirs, before_timestamp, remove_empty_dirs,
                   file_handler, cpc, stack, todo, invoked, cerr, initDirs,
                   initFiles>>
    /\ UNCHANGED <<swapVars, writeVars>>

\* Another process removes an empty directory of the tree while the walk runs.
ExtDeleteDir ==
    /\ cpc \in {"walk", "files", "root_rmdir"}
    /\ \E d \in cdirs :
          /\ IsEmptyDir(d, cdirs, cfiles)
          /\ cdirs' = cdirs \ {d}
    /\ UNCHANGED <<cparent, cfiles, before_timestamp, remove_empty_dirs,
                   file_handler, cpc, stack, todo, invoked, cerr, initDirs,
                   initFiles>>
    /\ UNCHANGED <<swapVars, writeVars>>

NextCleanRace ==
    \/ CleanBegin
    \/ WalkDescend
    \/ CleanYield
    \/ CleanFile
    \/ CleanDirDone
    \/ CleanRoot
    \/ ExtDeleteFile
    \/ ExtDeleteDir

SpecCleanRace == InitClean /\ [][NextCleanRace]_vars

\* C13: a file or directory that vanished before the cleaner touched it never
\* makes cleanup_directory raise.
C13_VanishedNeverRaises == cpc = "failed" => cerr # "ENOENT"

\* C20: with a caller-supplied file_handler, when cleanup_directory returns
\* the handler has been invoked exactly once on each file if the cutoff is 0,
\* and otherwise exactly once on each file with mtime < T and never on the
\* others; so never more than once on any file.
C20_HandlerOncePerFile ==
    (cpc = "done" /\ file_handler # "default")
    => \A f \in initFiles :
          invoked[f.id] =
             IF before_timestamp = 0 \/ f.mtime < before_timestamp
             THEN 1 ELSE 0

\* -------------------------------------------- further claims on swap_dir
\* C17: the delay slept after failed rename attempt n (n counted from 0) is
\* 2^n / 100 s: in centiseconds the delays are 1 after the first failure,
\* then 2, 4, ... up to 512.
C17_BackoffFromTenMs ==
    pc \in {"clear_list", "clear_files"}
    => (/\ Len(sleeps) = rename_tries
        /\ \A i \in 1..Len(sleeps) : sleeps[i] = Pow2(i - 1))

\* C18: swap_dir starts deleting the backup only after the rename of source
\* onto destination has succeeded, and when it ends without that rename
\* having succeeded the old tree is still complete at the backup path.
C18_BackupDeletedOnlyAfterRename ==
    /\ pc \in {"bak_list", "bak_files"} => lastErr = "OK"
    /\ (/\ Ended
        /\ oldEx
        /\ "remove" \notin ext
        /\ attempts > 0
        /\ lastErr # "OK")
       => fs["tmp"] = Dir(oldTree)

\* ----------------------------------------------------------- write_atomic
\* The branch for platforms with an atomic rename (line 217).  A file is
\* known by the call that created it; a name (a temp name, or `filename`)
\* refers to a file, and a call writes through its descriptor to the file it
\* created, wherever the names point by then.

\* line 225: `except OSError` catches OSError; the IOError that the file
\* object's write or close raises is no OSError
Caught(exc) == exc = "OSError"

\* A write that returns before all of data is in the file.
WrittenShort == "partial"

\* line 223: f.write(data), and the close at the end of the with block
Written == "full"

\* the call goes on in the except clause, or the exception leaves at once
Thrown(c, exc) ==
    /\ wexc' = [wexc EXCEPT ![c] = exc]
    /\ wpc' = [wpc EXCEPT ![c] = IF Caught(exc) THEN "unlink" ELSE "failed"]

\* line 219: path_tmp = filename + '.tmp-' + str(random.randint(0, 999999))
WChoose(c) ==
    /\ wpc[c] = "idle"
    /\ IF c = 1 THEN TRUE ELSE wpc[c - 1] # "idle"
    /\ \E n \in Names : wname' = [wname EXCEPT ![c] = n]
    /\ wpc' = [wpc EXCEPT ![c] = "open"]
    /\ UNCHANGED <<wexc, tmpfile, content, wpathEx, wpathIno, wfresh>>
    /\ UNCHANGED <<swapVars, cleanVars>>

\* line 221: os.open(path_tmp, O_EXCL | O_CREAT | O_WRONLY)
WOpen(c) ==
    /\ wpc[c] = "open"
    /\ \E fault \in BOOLEAN :
          IF fault \/ tmpfile[wname[c]] # 0
          THEN /\ Thrown(c, "OSError")
               /\ UNCHANGED <<tmpfile, content>>
          ELSE /\ tmpfile' = [tmpfile EXCEPT ![wname[c]] = c]
               /\ content' = [content EXCEPT ![c] = "partial"]
               /\ wpc' = [wpc EXCEPT ![c] = "write"]
               /\ UNCHANGED wexc
    /\ UNCHANGED <<wname, wpathEx, wpathIno, wfresh>>
    /\ UNCHANGED <<swapVars, cleanVars>>

\* lines 222-223: with os.fdopen(fd, 'wb') as f: f.write(data)
WWrite(c) ==
    /\ wpc[c] = "write"
    /\ \E fault \in BOOLEAN :
          IF fault
          THEN /\ Thrown(c, "IOError")
               /\ UNCHANGED content
          ELSE /\ content' = [content EXCEPT ![c] = Written]
               /\ wpc' = [wpc EXCEPT ![c] = "rename"]
               /\ UNCHANGED wexc
    /\ UNCHANGED <<wname, tmpfile, wpathEx, wpathIno, wfresh>>
    /\ UNCHANGED <<swapVars, cleanVars>>

\* line 224: os.rename(path_tmp, filename)
WRename(c) ==
    /\ wpc[c] = "rename"
    /\ \E fault \in BOOLEAN :
          IF fault \/ tmpfile[wname[c]] = 0
          THEN /\ Thrown(c, "OSError")
               /\ UNCHANGED <<tmpfile, wpathEx, wpathIno>>
          ELSE /\ wpathEx' = TRUE
               /\ wpathIno' = tmpfile[wname[c]]
               /\ tmpfile' = [tmpfile EXCEPT ![wname[c]] = 0]
               /\ wpc' = [wpc EXCEPT ![c] = "done"]
               /\ UNCHANGED wexc
    /\ UNCHANGED <<wname, content, wfresh>>
    /\ UNCHANGED <<swapVars, cleanVars>>

\* lines 226-230: os.unlink(path_tmp), its own OSError ignored, then raise
WUnlink(c) ==
    /\ wpc[c] = "unlink"
    /\ tmpfile' = [tmpfile EXCEPT ![wname[c]] = 0]
    /\ wpc' = [wpc EXCEPT ![c] = "failed"]
    /\ UNCHANGED <<wname, wexc, content, wpathEx, wpathIno, wfresh>>
    /\ UNCHANGED <<swapVars, cleanVars>>

WriteInit ==
    /\ wpc = [c \in Writers |-> "idle"]
    /\ wname = [c \in Writers |-> 0]
    /\ wexc = [c \in Writers |-> "none"]
    /\ tmpfile = [n \in Names |-> 0]
    /\ content = [c \in 0..MaxWriters |-> IF c = 0 THEN "full" ELSE "none"]
    /\ wpathEx \in BOOLEAN
    /\ wpathIno = 0
    /\ wfresh = ~wpathEx

InitWrite == SwapIdle /\ CleanIdle /\ WriteInit

NextWrite ==
    \E c \in Writers :
       \/ WChoose(c)
       \/ WOpen(c)
       \/ WWrite(c)
       \/ WRename(c)
       \/ WUnlink(c)

SpecWrite == InitWrite /\ [][NextWrite]_vars

\* ---------------------------------------------------- claims on write_atomic
\* C14: whatever the interleaving of the calls, and also when calls draw the
\* same temp name, a reader of the path sees the content it had before or the
\* complete data of one call, never a partly written file.
C14_NoPartialRead == wpathEx => content[wpathIno] = "full"

\* C15: when a write_atomic call has failed after creating its temporary
\* file, that file is no longer at its temp name.
C15_TempRemovedOnFailure ==
    \A c \in Writers :
       (wpc[c] = "failed" /\ content[c] # "none") => tmpfile[wname[c]] # c

\* C16: after a write_atomic call that succeeded with no other call around,
\* on a fresh or an existing path, the path holds exactly the call's data and
\* the call's temporary file is gone.
C16_RoundTrip ==
    \A c \in Writers :
       (wpc[c] = "done" /\ \A d \in Writers \ {c} : wpc[d] = "idle")
       => (/\ wpathEx
           /\ wpathIno = c
           /\ content[c] = "full"
           /\ tmpfile[wname[c]] = 0)

\* C16 witness: the call replaced an existing file.
C16_Witness ==
    /\ wpc[1] = "done"
    /\ \A d \in Writers \ {1} : wpc[d] = "idle"
    /\ ~wfresh
    /\ wpathIno = 1
    /\ content[1] = "full"

\* C19: a temporary file is unlinked or renamed only by the call that
\* created it.
C19_OwnTempOnly ==
    [][\A n \in Names :
          (tmpfile[n] # 0 /\ tmpfile'[n] # tmpfile[n])
          => wpc'[tmpfile[n]] # wpc[tmpfile[n]]]_vars

====
